---- MODULE Spec2Model ----
(***************************************************************************)
(* The three command-line scripts of the repository as one state machine:  *)
(*   ml_scripts/ml_trend.py                       (linear trend, forecast) *)
(*   matplot_graphs/scripts/plot_base_pcp_metric.py                (plot)  *)
(*   matplot_graphs/scripts/plot_split_by_observed_predicted.py    (plot)  *)
(* A run is one behaviour: Init is the process right after argument        *)
(* parsing, every action is one step of main(), and pc = "done" is the     *)
(* process exit (exit_status 0 or 1, files = the output files written).    *)
(*                                                                         *)
(* Time is counted in units of 1/UnitsPerDay of a day since the Unix       *)
(* epoch; metric values are small naturals; the fitted line is kept as     *)
(* exact fractions.  NaT / NaN are the values pandas gives to timestamps   *)
(* and numbers that do not parse.                                          *)
(***************************************************************************)
EXTENDS Integers, Sequences, FiniteSets, TLC

\* ---------------------------------------------------------------- bounds
MaxRows == 3
MaxTime == 4
MaxVal == 1
MaxInterval == 3
MaxCols == 3
MaxHorizonSteps == 4
HorizonStep == 6
UnitsPerDay == 2
BigThreshold == 1000000

\* ------------------------------------------------------ program constants
SecondsPerHour == 3600
HoursPerDay == 24
\* pandas keeps a Timedelta / Timestamp as int64 nanoseconds: 2^63 ns are
\* 2562047.78 hours; a larger offset raises OutOfBoundsTimedelta/Datetime.
TdMaxHours == 2562047
MinPointsLow == 3 - 1
MinPoints == 3

HoursPerUnit == HoursPerDay \div UnitsPerDay
StepSeconds(I) == I * HoursPerUnit * SecondsPerHour
TdMaxUnits == TdMaxHours \div HoursPerUnit

NaT == -1
NaN == -1
BadInterval == -1

Max(a, b) == IF a >= b THEN a ELSE b
Abs(a) == IF a >= 0 THEN a ELSE -a
\* Python's int() of a quotient: truncation toward zero.
Trunc(a, b) == IF a >= 0 THEN a \div b ELSE -((-a) \div b)
Ceil(a, b) == -((-a) \div b)
Last(seq) == seq[Len(seq)]

\* ------------------------------------------------------------ the inputs
TimeVals == 0..MaxTime
Vals == 0..MaxVal
Intervals == 1..MaxInterval
Horizons == {HorizonStep * k : k \in -1..MaxHorizonSteps}
Thresholds == {<<>>} \cup {<<x>> : x \in 0..MaxVal} \cup {<<BigThreshold>>}
RowSet ==
  {[Time |-> t, value |-> v] : t \in TimeVals, v \in Vals \cup {NaN}}
    \cup {[Time |-> NaT, value |-> NaN]}
Tables == UNION {[1..n -> RowSet] : n \in 0..MaxRows}

VARIABLES
  script,        \* which of the three scripts runs
  pc,            \* position in main()
  columns,       \* df.columns, the CSV header in file order
  numeric,       \* the columns pandas reads with a numeric dtype
  arg_time,      \* --time-col ("" when not given)
  arg_metric,    \* --metric / --value-col ("" when not given)
  arg_pdf,       \* --pdf, recorded when main() reads it
  interval,      \* --interval, recorded when main() reads it
  horizon_hours, \* --horizon_hours, recorded when main() reads it
  threshold,     \* --threshold, <<>> for None, recorded when main() reads it
  time_col,      \* the resolved time column
  metric_col,    \* the resolved metric / value column
  df,            \* the (Time, metric) rows: as read_csv returned them, then
                 \* (line 36) parsed, sorted and deduplicated
  obs,           \* s of line 39: the numeric points
  s,             \* s of line 45: the resampled, forward-filled series
  model,         \* the fitted line
  n_steps,
  out,           \* the rows of the forecast CSV
  files,         \* the output files written so far
  eta,           \* the ETA line printed
  exit_status    \* -1 while running

vars ==
  <<script, pc, columns, numeric, arg_time, arg_metric, arg_pdf, interval,
    horizon_hours, threshold, time_col, metric_col, df, obs, s, model,
    n_steps, out, files, eta, exit_status>>

args == <<arg_time, arg_metric, arg_pdf, interval, horizon_hours, threshold>>
header == <<columns, numeric>>
resolved == <<time_col, metric_col>>
series == <<df, obs, s>>
result == <<model, n_steps, out, files, eta>>

NoModel == [slopeNum |-> 0, slopeDen |-> 1, icptNum |-> 0, icptDen |-> 1, n |-> 0]

\* fail(msg): print to stderr and sys.exit(1); an uncaught exception ends the
\* process the same way (traceback, status 1).
Fail ==
  /\ pc' = "done"
  /\ exit_status' = 1

\* ------------------------------------------------------------ ml_trend.py
\* the headers ml_trend.py is run on; <<>> is a CSV that read_csv cannot read
TrendHeaders ==
  { <<>>, <<"Time", "ops">>, <<"time", "ops">>, <<"Date", "ops">> }
TrendMetrics == {"ops", "val"}

ColumnSet(cols) == {cols[i] : i \in 1..Len(cols)}

\* lines 22-31: read_csv and the two column checks
TrendLoad ==
  /\ script = "ml_trend"
  /\ pc = "load"
  /\ \/ /\ \/ columns = <<>>
           \/ "Time" \notin ColumnSet(columns)
        /\ Fail
        /\ UNCHANGED <<df, time_col, metric_col>>
     \/ /\ "Time" \in ColumnSet(columns)
        /\ arg_metric \notin ColumnSet(columns)
        /\ time_col' = "Time"
        /\ Fail
        /\ UNCHANGED <<df, metric_col>>
     \/ /\ "Time" \in ColumnSet(columns)
        /\ arg_metric \in ColumnSet(columns)
        /\ \E t \in Tables : df' = t
        /\ time_col' = "Time"
        /\ metric_col' = arg_metric
        /\ pc' = "clean"
        /\ UNCHANGED exit_status
  /\ UNCHANGED <<script, header, args, obs, s, result>>

\* line 35: dropna(subset=["Time"])
DropNaT(t) == SelectSeq(t, LAMBDA r : r.Time # NaT)

ComesFirstDesc(t, i) == \A j \in 1..Len(t) : t[i].Time >= t[j].Time
\* a row that no other row precedes in ascending Time order
ComesFirst(t, i) == \A j \in 1..Len(t) : t[i].Time <= t[j].Time

Remove(t, i) == SubSeq(t, 1, i - 1) \o SubSeq(t, i + 1, Len(t))

\* line 36: sort_values("Time") with the default kind="quicksort", which is not
\* stable: rows of equal Time come out in any order.  The set of the orders
\* the sort may return.
RECURSIVE SortValues(_)
SortValues(t) ==
  IF t = <<>> THEN {<<>>}
  ELSE UNION {{<<t[i]>> \o r : r \in SortValues(Remove(t, i))} :
                i \in {k \in 1..Len(t) : ComesFirst(t, k)}}

\* line 36: drop_duplicates("Time") with the default keep="first"
RECURSIVE DropDuplicates(_)
DropDuplicates(t) ==
  IF t = <<>> THEN <<>>
  ELSE LET init == SubSeq(t, 1, Len(t) - 1)
       IN IF \E j \in 1..Len(init) : init[j].Time = Last(t).Time
            THEN DropDuplicates(init)
            ELSE Append(DropDuplicates(init), Last(t))

\* lines 33-36
TrendClean ==
  /\ script = "ml_trend"
  /\ pc = "clean"
  /\ \E sorted \in SortValues(DropNaT(df)) : df' = DropDuplicates(sorted)
  /\ pc' = "numeric"
  /\ UNCHANGED <<script, header, args, resolved, obs, s, result, exit_status>>

\* lines 38-41: to_numeric(errors="coerce").dropna(), s.empty
TrendNumeric ==
  /\ script = "ml_trend"
  /\ pc = "numeric"
  /\ LET pts == SelectSeq(df, LAMBDA r : r.value # NaN)
     IN /\ obs' = pts
        /\ IF pts = <<>>
             THEN Fail
             ELSE pc' = "resample" /\ UNCHANGED exit_status
  /\ UNCHANGED <<script, header, args, resolved, df, s, result>>

\* resample: origin="start_day", closed="left", label="left" (the defaults)
Origin(first) == (first \div UnitsPerDay) * UnitsPerDay
BinLabelRight(t, first, I) == Origin(first) + ((t - Origin(first)) \div I) * I + I
BinLabel(t, first, I) == Origin(first) + ((t - Origin(first)) \div I) * I

BinFirst(pts, g, I) ==
  LET in == {i \in 1..Len(pts) : BinLabel(pts[i].Time, pts[1].Time, I) = g}
  IN IF in = {} THEN NaN
     ELSE pts[CHOOSE i \in in : \A j \in in : j >= i].value
\* .last(): the last value of the bucket, NaN for an empty bucket
BinLast(pts, g, I) ==
  LET in == {i \in 1..Len(pts) : BinLabel(pts[i].Time, pts[1].Time, I) = g}
  IN IF in = {} THEN NaN
     ELSE pts[CHOOSE i \in in : \A j \in in : j <= i].value

ResampleLast(pts, I) ==
  LET lo == BinLabel(pts[1].Time, pts[1].Time, I)
      hi == BinLabel(Last(pts).Time, pts[1].Time, I)
  IN [k \in 1..((hi - lo) \div I + 1) |->
        [Time |-> lo + (k - 1) * I, value |-> BinLast(pts, lo + (k - 1) * I, I)]]

\* .ffill(): a NaN takes the last value before it
FFill(g) ==
  [k \in 1..Len(g) |->
     LET known == {j \in 1..k : g[j].value # NaN}
     IN IF known = {} THEN g[k]
        ELSE [Time |-> g[k].Time,
              value |-> g[CHOOSE j \in known : \A i \in known : i <= j].value]]

Resample(pts, I) == FFill(ResampleLast(pts, I))

\* lines 43-47
TrendResample ==
  /\ script = "ml_trend"
  /\ pc = "resample"
  /\ \E i \in Intervals \cup {BadInterval} :
       /\ interval' = i
       /\ IF i = BadInterval
            THEN Fail /\ UNCHANGED s
            ELSE s' = Resample(obs, i) /\ pc' = "check" /\ UNCHANGED exit_status
  /\ UNCHANGED <<script, header, arg_time, arg_metric, arg_pdf, horizon_hours,
                 threshold, resolved, df, obs, result>>

\* lines 49-50
TrendCheck ==
  /\ script = "ml_trend"
  /\ pc = "check"
  /\ IF Len(s) < MinPoints
       THEN Fail
       ELSE pc' = "fit" /\ UNCHANGED exit_status
  /\ UNCHANGED <<script, header, args, resolved, series, result>>

RECURSIVE Sum(_, _)
Sum(f, n) == IF n = 0 THEN 0 ELSE f[n] + Sum(f, n - 1)

\* lines 52-62: ordinary least squares of value on hours since t0, as exact
\* fractions: slope = slopeNum / slopeDen (per hour), intercept = icptNum / icptDen
Fit(g) ==
  LET n == Len(g)
      x == [k \in 1..n |-> g[k].Time - g[1].Time]
      Sx == Sum(x, n)
      Sy == Sum([k \in 1..n |-> g[k].value], n)
      Sxx == Sum([k \in 1..n |-> x[k] * x[k]], n)
      Sxy == Sum([k \in 1..n |-> x[k] * g[k].value], n)
      N == n * Sxy - Sx * Sy
      D == n * Sxx - Sx * Sx
  IN [slopeNum |-> N, slopeDen |-> D * HoursPerUnit,
      icptNum |-> Sy * D - N * Sx, icptDen |-> n * D, n |-> n]

TrendFit ==
  /\ script = "ml_trend"
  /\ pc = "fit"
  /\ model' = Fit(s)
  /\ pc' = "forecast"
  /\ UNCHANGED <<script, header, args, resolved, series, n_steps, out, files, eta,
                 exit_status>>

NStepsCeil(h, I) == Max(Ceil(h * SecondsPerHour, StepSeconds(I)), 1)
\* line 67
NSteps(h, I) == Max(Trunc(h * SecondsPerHour, StepSeconds(I)), 1)

FutureIdxFromLast(g, I, n) == [k \in 1..n |-> Last(g).Time + (k - 1) * I]
\* line 69: date_range(s.index[-1] + freq_off, periods=n_steps, freq=freq_off)
FutureIdx(g, I, n) == [k \in 1..n |-> Last(g).Time + I + (k - 1) * I]

\* line 71: the line at time t, as the fraction <<numerator, denominator>>
Predict(m, t0, t) ==
  <<m.icptNum * m.slopeDen + m.slopeNum * (t - t0) * HoursPerUnit * m.icptDen,
    m.icptDen * m.slopeDen>>

\* lines 64-76
TrendForecast ==
  /\ script = "ml_trend"
  /\ pc = "forecast"
  /\ \E h \in Horizons :
       /\ horizon_hours' = h
       /\ n_steps' = NSteps(h, interval)
       /\ LET idx == FutureIdx(s, interval, NSteps(h, interval))
          IN out' =
               [k \in 1..Len(s) |->
                  [Time |-> s[k].Time, value |-> <<s[k].value, 1>>, type |-> "observed"]]
               \o
               [k \in 1..Len(idx) |->
                  [Time |-> idx[k], value |-> Predict(model, s[1].Time, idx[k]),
                   type |-> "predicted"]]
  /\ pc' = "write"
  /\ UNCHANGED <<script, header, arg_time, arg_metric, arg_pdf, interval, threshold,
                 resolved, series, model, files, eta, exit_status>>

\* line 77: to_csv either writes the file or raises (unwritable path)
TrendWrite ==
  /\ script = "ml_trend"
  /\ pc = "write"
  /\ \/ files' = files \cup {"csv"} /\ pc' = "eta" /\ UNCHANGED exit_status
     \/ Fail /\ UNCHANGED files
  /\ UNCHANGED <<script, header, args, resolved, series, model, n_steps, out, eta>>

\* line 88-89: x_eta in time units is EtaNum / EtaDen, EtaDen > 0
EtaNum(m, thr) ==
  LET p == thr * m.icptDen - m.icptNum
      q == m.n * m.slopeNum
  IN IF q > 0 THEN p ELSE -p
EtaDen(m) == Abs(m.n * m.slopeNum)

\* line 89: to_timedelta and the addition raise when the result leaves the
\* int64 nanosecond range
EtaRaises(m, t0, thr) ==
  \/ Abs(EtaNum(m, thr)) > TdMaxUnits * EtaDen(m)
  \/ Abs(t0 * EtaDen(m) + EtaNum(m, thr)) > TdMaxUnits * EtaDen(m)

\* line 91: eta_ts <= s.index[-1]
EtaNotAfterLast(m, t0, last, thr) ==
  t0 * EtaDen(m) + EtaNum(m, thr) <= last * EtaDen(m)

\* lines 83-94
TrendEta ==
  /\ script = "ml_trend"
  /\ pc = "eta"
  /\ \E th \in Thresholds :
       /\ threshold' = th
       /\ IF th = <<>>
            THEN pc' = "done" /\ exit_status' = 0 /\ UNCHANGED eta
            ELSE IF model.slopeNum = 0
              THEN pc' = "done" /\ exit_status' = 0 /\ eta' = "unreachable"
              ELSE IF EtaRaises(model, s[1].Time, th[1])
                THEN Fail /\ UNCHANGED eta
                ELSE /\ pc' = "done"
                     /\ exit_status' = 0
                     /\ eta' = IF EtaNotAfterLast(model, s[1].Time, Last(s).Time, th[1])
                                 THEN "reached" ELSE "projected"
  /\ UNCHANGED <<script, header, arg_time, arg_metric, arg_pdf, interval,
                 horizon_hours, resolved, series, model, n_steps, out, files>>

\* ------------------------------------------------- the two plotting scripts
Names == {"Time", "time", "Date", "ops", "val", "opscompleted"}
\* columns whose cells are dates are never read with a numeric dtype
NumericNames == {"ops", "val", "opscompleted"}
PlotHeaders ==
  {h \in UNION {[1..n -> Names] : n \in 0..MaxCols} :
     \A i, j \in 1..Len(h) : i # j => h[i] # h[j]}
PlotTimeArgs == {"", "Date", "ops"}
PlotMetricArgs == {"", "ops", "val"}
LabelArgs == {"val", "type"}
PdfArgs == {"", "ok", "nodir", "unwritable"}

\* str.lower() on the column names
Lower(c) ==
  CASE c = "Time" -> "time"
    [] c = "Date" -> "date"
    [] OTHER -> c

CandidatesDateFirst == <<"date", "time", "timestamp", "datetime">>
\* plot_base_pcp_metric.py line 41, plot_split_by_observed_predicted.py line 34
Candidates == <<"time", "timestamp", "date", "datetime">>

\* detect_time_col of both plotting scripts.  {c.lower(): c for c in df.columns}
\* keeps, for columns equal up to case, the last one in file order.
detect_time_col(cols, forced) ==
  IF forced # "" /\ forced \in ColumnSet(cols)
    THEN forced
    ELSE LET hits == {k \in 1..Len(Candidates) :
                        \E i \in 1..Len(cols) : Lower(cols[i]) = Candidates[k]}
         IN IF hits = {}
              THEN cols[1]
              ELSE LET k == CHOOSE x \in hits : \A y \in hits : x <= y
                       at == {i \in 1..Len(cols) : Lower(cols[i]) = Candidates[k]}
                   IN cols[CHOOSE i \in at : \A j \in at : j <= i]

Preferred == <<"ds389.cn.opscompleted", "ds389.cn.opsCompleted", "opscompleted">>

NumericCols(cols, num, tcol) ==
  SelectSeq(cols, LAMBDA c : c # tcol /\ c \in num)

pick_metric_col_strict(cols, num, tcol, metric) ==
  IF metric # ""
    THEN IF metric \in ColumnSet(cols) THEN metric ELSE ""
    ELSE IF NumericCols(cols, num, tcol) = <<>> THEN ""
         ELSE NumericCols(cols, num, tcol)[1]
\* pick_metric_col of plot_base_pcp_metric.py; "" stands for raise SystemExit
pick_metric_col(cols, num, tcol, metric) ==
  IF metric # "" /\ metric \in ColumnSet(cols)
    THEN metric
    ELSE LET nc == NumericCols(cols, num, tcol)
             pref == {k \in 1..Len(Preferred) : Preferred[k] \in ColumnSet(nc)}
         IN IF nc = <<>> THEN ""
            ELSE IF pref # {}
              THEN Preferred[CHOOSE k \in pref : \A j \in pref : k <= j]
              ELSE nc[1]

\* detect_value_col of plot_split_by_observed_predicted.py
detect_value_col(cols, num, tcol, forced) ==
  IF forced # "" /\ forced \in ColumnSet(cols)
    THEN forced
    ELSE LET nc == NumericCols(cols, num, tcol)
         IN IF nc = <<>> THEN "" ELSE nc[1]

IsPlot == script \in {"plot_base", "plot_split"}

\* plot_base 74-82, plot_split 79-84: read_csv, detect_time_col, to_datetime
PlotDetectTime ==
  /\ IsPlot
  /\ pc = "load"
  /\ IF columns = <<>>
       THEN Fail /\ UNCHANGED time_col
       ELSE /\ time_col' = detect_time_col(columns, arg_time)
            /\ pc' = "metric"
            /\ UNCHANGED exit_status
  /\ UNCHANGED <<script, header, args, metric_col, series, result>>

\* plot_base 83, plot_split 85
PlotPickMetric ==
  /\ IsPlot
  /\ pc = "metric"
  /\ LET m == IF script = "plot_base"
                THEN pick_metric_col(columns, numeric, time_col, arg_metric)
                ELSE detect_value_col(columns, numeric, time_col, arg_metric)
     IN /\ metric_col' = m
        /\ IF m = ""
             THEN Fail
             ELSE /\ pc' = IF script = "plot_split" THEN "label" ELSE "render"
                  /\ UNCHANGED exit_status
  /\ UNCHANGED <<script, header, args, time_col, series, result>>

\* plot_split 87-88
PlotCheckLabel ==
  /\ script = "plot_split"
  /\ pc = "label"
  /\ \E l \in LabelArgs :
       IF l \notin ColumnSet(columns)
         THEN Fail
         ELSE pc' = "render" /\ UNCHANGED exit_status
  /\ UNCHANGED <<script, header, args, resolved, series, result>>

\* plot_base 85-112, plot_split 90-168: nothing is written; with a datetime
\* time column a --resample that is no offset alias raises
PlotRender ==
  /\ IsPlot
  /\ pc = "render"
  /\ \E r \in {0} \cup Intervals \cup {BadInterval}, datetime \in BOOLEAN :
       IF datetime /\ r = BadInterval
         THEN Fail
         ELSE pc' = "png" /\ UNCHANGED exit_status
  /\ UNCHANGED <<script, header, args, resolved, series, result>>

\* plot_base 114-116, plot_split 170-172: fig.savefig(png)
PlotSavePng ==
  /\ IsPlot
  /\ pc = "png"
  /\ \/ files' = files \cup {"png"} /\ pc' = "pdf" /\ UNCHANGED exit_status
     \/ Fail /\ UNCHANGED files
  /\ UNCHANGED <<script, header, args, resolved, series, model, n_steps, out, eta>>

\* plot_base 118-122 creates the PDF's directory first; plot_split 173-175
\* does not
PdfWriteFails(sc, pdf) ==
  \/ pdf = "unwritable"
  \/ sc = "plot_split" /\ pdf = "nodir"

PlotSavePdf ==
  /\ IsPlot
  /\ pc = "pdf"
  /\ \E p \in PdfArgs :
       /\ arg_pdf' = p
       /\ IF p = ""
            THEN pc' = "done" /\ exit_status' = 0 /\ UNCHANGED files
            ELSE IF PdfWriteFails(script, p)
              THEN Fail /\ UNCHANGED files
              ELSE pc' = "done" /\ exit_status' = 0 /\ files' = files \cup {"pdf"}
  /\ UNCHANGED <<script, header, arg_time, arg_metric, interval, horizon_hours,
                 threshold, resolved, series, model, n_steps, out, eta>>

InitPlot ==
  /\ script \in {"plot_base", "plot_split"}
  /\ columns \in PlotHeaders
  /\ numeric \in SUBSET (ColumnSet(columns) \cap NumericNames)
  /\ arg_time \in PlotTimeArgs
  /\ arg_metric \in PlotMetricArgs

InitTrend ==
  /\ script = "ml_trend"
  /\ columns \in TrendHeaders
  /\ numeric = {}
  /\ arg_time = ""
  /\ arg_metric \in TrendMetrics

InitCommon ==
  /\ pc = "load"
  /\ arg_pdf = ""
  /\ interval = 0
  /\ horizon_hours = 0
  /\ threshold = <<>>
  /\ time_col = ""
  /\ metric_col = ""
  /\ df = <<>>
  /\ obs = <<>>
  /\ s = <<>>
  /\ model = NoModel
  /\ n_steps = 0
  /\ out = <<>>
  /\ files = {}
  /\ eta = ""
  /\ exit_status = -1

Init == (InitTrend \/ InitPlot) /\ InitCommon

Next ==
  \/ TrendLoad
  \/ TrendClean
  \/ TrendNumeric
  \/ TrendResample
  \/ TrendCheck
  \/ TrendFit
  \/ TrendForecast
  \/ TrendWrite
  \/ TrendEta
  \/ PlotDetectTime
  \/ PlotPickMetric
  \/ PlotCheckLabel
  \/ PlotRender
  \/ PlotSavePng
  \/ PlotSavePdf

Spec == Init /\ [][Next]_vars
\* ================================================================ claims
IsTrend == script = "ml_trend"
Predicted == {k \in 1..Len(out) : out[k].type = "predicted"}
Observed == {k \in 1..Len(out) : out[k].type = "observed"}
MetricMissing == arg_metric # "" /\ arg_metric \notin ColumnSet(columns)

C2_MissingMetricIsFatal ==
  (MetricMissing /\ columns # <<>> /\ pc \notin {"load", "metric"}) =>
    (pc = "done" /\ exit_status = 1 /\ files = {} /\ metric_col = "")

\* C2 (amended): ml_trend.py fails on a --metric that is no column and writes
\* nothing; the plotting scripts ignore a forced name that is no column and
\* plot the first numeric column other than the time column (in
\* plot_base_pcp_metric.py a numeric column "opscompleted" comes first),
\* failing without output only when there is no such column.
C2_MissingMetricHandling ==
  (MetricMissing /\ columns # <<>> /\ pc \notin {"load", "metric"}) =>
    LET nc == {i \in 1..Len(columns) : columns[i] # time_col /\ columns[i] \in numeric}
        first == columns[CHOOSE i \in nc : \A j \in nc : i <= j]
    IN IF IsTrend \/ nc = {}
         THEN pc = "done" /\ exit_status = 1 /\ files = {} /\ metric_col = ""
         ELSE /\ metric_col \in ColumnSet(columns)
              /\ metric_col =
                   IF script = "plot_base" /\ "opscompleted" \in {columns[i] : i \in nc}
                     THEN "opscompleted" ELSE first

\* a plot written for a column that was not the one asked for
C2_Witness ==
  /\ IsPlot
  /\ MetricMissing
  /\ pc = "done"
  /\ exit_status = 0
  /\ "png" \in files
  /\ metric_col # arg_metric

\* C3: the forecast CSV is written only if at least 3 points remain after
\* resampling; with fewer the run has failed (status 1) with no trend fit, no
\* forecast and no CSV.
C3_NeedsThreePoints ==
  IsTrend =>
    /\ "csv" \in files => Len(s) >= 3
    /\ (model # NoModel \/ out # <<>>) => Len(s) >= 3
    /\ (Len(s) < 3 /\ pc \notin {"load", "clean", "numeric", "resample", "check"}) =>
         (pc = "done" /\ exit_status = 1 /\ model = NoModel /\ out = <<>> /\ files = {})

\* a run that resampled to one or two points and failed
C3_Witness ==
  /\ IsTrend
  /\ pc = "done"
  /\ exit_status = 1
  /\ Len(s) \in {1, 2}

TimeRank(n) ==
  CASE n = "time" -> 1
    [] n = "timestamp" -> 2
    [] n = "date" -> 3
    [] n = "datetime" -> 4
    [] OTHER -> 5

\* C4 (as stated, its last sentence): with no valid forced name, a CSV with a
\* column named "time" in any letter case has such a column selected as the
\* time column, in the plotting scripts and in the forecast script alike.
C4_TimeColumnAnyCase ==
  ( /\ pc # "load"
    /\ ~(arg_time # "" /\ arg_time \in ColumnSet(columns))
    /\ \E c \in ColumnSet(columns) : Lower(c) = "time" ) =>
      (time_col \in ColumnSet(columns) /\ Lower(time_col) = "time")

\* C4 (amended): the plotting scripts select the forced name if it is a
\* column; otherwise the column matching, case-insensitively, the first of
\* time, timestamp, date, datetime that matches any column (the last such
\* column in file order when several differ only in case); otherwise the
\* first column.  The forecast script has no resolver: its time column is the
\* column named exactly "Time", and the run fails when there is none.
C4_TimeColumnRule ==
  /\ (IsPlot /\ pc # "load" /\ columns # <<>>) =>
       IF arg_time # "" /\ arg_time \in ColumnSet(columns)
         THEN time_col = arg_time
         ELSE IF \E c \in ColumnSet(columns) : TimeRank(Lower(c)) < 5
           THEN /\ time_col \in ColumnSet(columns)
                /\ \A c \in ColumnSet(columns) :
                     TimeRank(Lower(time_col)) <= TimeRank(Lower(c))
                /\ \A i, j \in 1..Len(columns) :
                     (columns[i] = time_col /\ Lower(columns[j]) = Lower(time_col))
                       => j <= i
           ELSE time_col = columns[1]
  /\ (IsTrend /\ pc # "load") =>
       IF "Time" \in ColumnSet(columns)
         THEN time_col = "Time"
         ELSE pc = "done" /\ exit_status = 1 /\ time_col = "" /\ files = {}

\* a plot run that chose a "time" column over a "Date" column that precedes it
C4_Witness ==
  /\ IsPlot
  /\ pc = "done"
  /\ ~(arg_time # "" /\ arg_time \in ColumnSet(columns))
  /\ Lower(time_col) = "time"
  /\ columns[1] = "Date"

\* C5: with a threshold exactly one ETA outcome is reported: "unreachable" iff
\* the slope is zero; otherwise "already reached" iff the crossing time is at
\* or before the last observed sample and "projected" iff it is after.
C5_EtaOutcome ==
  (IsTrend /\ "csv" \in files /\ pc = "done" /\ threshold # <<>>) =>
    eta = IF model.slopeNum = 0 THEN "unreachable"
          ELSE IF EtaNotAfterLast(model, s[1].Time, Last(s).Time, threshold[1])
            THEN "reached" ELSE "projected"

\* C6: resampling is idempotent: resampling the resampled series at the same
\* interval gives the same timestamps and values.
C6_ResampleIdempotent ==
  (IsTrend /\ s # <<>>) => Resample(s, interval) = s

\* a resampled series that differs from the points it was made from: the grid
\* starts before the first point and a gap was filled
C6_Witness ==
  /\ IsTrend
  /\ s # <<>>
  /\ s[1].Time # obs[1].Time
  /\ Len(s) > Len(obs)

\* C7: a run that ends in failure has written no output file.
C7_NoOutputOnFailure ==
  (pc = "done" /\ exit_status = 1) => files = {}

StrictlyIncreasing(t) == \A i, j \in 1..Len(t) : i < j => t[i].Time < t[j].Time
RowsAt(t, tm) == {i \in 1..Len(t) : t[i].Time = tm}
ValidTimes(t) == {t[i].Time : i \in 1..Len(t)} \ {NaT}

\* C8 (as stated): of the rows with one timestamp the cleaning step keeps the
\* one that is last in the input table's order.
C8_LastWins ==
  [][(IsTrend /\ pc = "clean") =>
       \A tm \in ValidTimes(df) :
         /\ Cardinality(RowsAt(df', tm)) = 1
         /\ \A k \in RowsAt(df', tm) :
              df'[k] = df[CHOOSE i \in RowsAt(df, tm) : \A j \in RowsAt(df, tm) : j <= i]
    ]_vars

\* C8 (amended): the cleaning step keeps exactly one row per timestamp, one of
\* the input rows with that timestamp (the first of them in sorted order, and
\* the sort does not keep equal timestamps in input order, so not reliably the
\* last nor the first of the table); afterwards the timestamps are unique and
\* strictly increasing.
C8_OneRowPerTimestamp ==
  [][(IsTrend /\ pc = "clean") =>
       /\ ValidTimes(df') = ValidTimes(df)
       /\ \A k \in 1..Len(df') : df'[k].Time # NaT
       /\ \A tm \in ValidTimes(df) :
            /\ Cardinality(RowsAt(df', tm)) = 1
            /\ \A k \in RowsAt(df', tm) : \E i \in RowsAt(df, tm) : df'[k] = df[i]
       /\ StrictlyIncreasing(df')
    ]_vars

\* a table about to be cleaned with two rows of one timestamp and different
\* values, and rows out of time order
C8_Witness ==
  /\ IsTrend
  /\ pc = "clean"
  /\ \E i, j \in 1..Len(df) :
       i < j /\ df[i].Time = df[j].Time /\ df[i].Time # NaT /\ df[i].value # df[j].value
  /\ \E i, j \in 1..Len(df) : i < j /\ df[j].Time # NaT /\ df[i].Time > df[j].Time

\* C9 (as stated): the first timestamp of the resampled grid is the first
\* valid observed timestamp.
C9_GridStartsAtFirstPoint ==
  (IsTrend /\ s # <<>>) => s[1].Time = obs[1].Time

\* C9 (amended): the grid starts at the start of the bucket that holds the
\* first point, buckets being counted from midnight of the first point's day,
\* so at or before the first point and less than one interval before it; the
\* grid is evenly spaced and reaches the bucket of the last point; a bucket
\* with points carries the last of them, an empty bucket the value of the
\* bucket before it, and no grid point is without a value.
C9_ResampledGrid ==
  (IsTrend /\ s # <<>>) =>
    LET first == obs[1].Time
        midnight == first - (first % UnitsPerDay)
        inb(k) == {i \in 1..Len(obs) :
                     s[k].Time <= obs[i].Time /\ obs[i].Time < s[k].Time + interval}
    IN /\ s[1].Time <= first
       /\ first < s[1].Time + interval
       /\ (s[1].Time - midnight) % interval = 0
       /\ \A k \in 1..(Len(s) - 1) : s[k + 1].Time = s[k].Time + interval
       /\ Last(s).Time <= Last(obs).Time
       /\ Last(obs).Time < Last(s).Time + interval
       /\ \A k \in 1..Len(s) :
            /\ s[k].value # NaN
            /\ IF inb(k) # {}
                 THEN s[k].value = obs[CHOOSE i \in inb(k) : \A j \in inb(k) : j <= i].value
                 ELSE k > 1 /\ s[k].value = s[k - 1].value

\* a grid that starts before the first point and has an empty bucket that took
\* a value other than the one after it
C9_Witness ==
  /\ IsTrend
  /\ s # <<>>
  /\ s[1].Time < obs[1].Time
  /\ \E k \in 2..(Len(s) - 1) :
       /\ \A i \in 1..Len(obs) : obs[i].Time < s[k].Time \/ obs[i].Time >= s[k].Time + interval
       /\ s[k].value # s[k + 1].value

\* C10: in the forecast CSV the observed rows come first, the first predicted
\* timestamp is one interval after the last observed one, predicted
\* timestamps are one interval apart, and all timestamps strictly increase.
C10_OutputOrder ==
  (IsTrend /\ "csv" \in files) =>
    LET no == Cardinality(Observed)
    IN /\ no >= 1
       /\ Len(out) > no
       /\ \A k \in 1..Len(out) : out[k].type = IF k <= no THEN "observed" ELSE "predicted"
       /\ out[no + 1].Time = out[no].Time + interval
       /\ \A k \in (no + 1)..(Len(out) - 1) : out[k + 1].Time = out[k].Time + interval
       /\ StrictlyIncreasing(out)

\* a written forecast with at least two predicted rows
C10_Witness ==
  /\ IsTrend
  /\ "csv" \in files
  /\ Cardinality(Predicted) >= 2
====
